---- MODULE Spec2Model ----
(***************************************************************************)
(* uuidcat: a UUIDv7 with an 8-bit category in bits 68-75, and the         *)
(* process-wide CategoryProvider that says which enum the byte is read in. *)
(*                                                                         *)
(* Python integers are unbounded; a non-negative integer is modelled as    *)
(* the set of the positions of its 1 bits (bit 0 = least significant), so  *)
(* that the 128-bit arithmetic of uuidcat.py is done at full width.        *)
(***************************************************************************)
EXTENDS Integers, Sequences, FiniteSets, TLC

VARIABLES category_enum, serial, obj, ret, installed, frame

vars == <<category_enum, serial, obj, ret, installed, frame>>

(***************************************************************************)
(* Bounds of the model.                                                    *)
(***************************************************************************)
\* how many enum classes set_categories_from_json may create in one run
MaxDynamic == 1

(***************************************************************************)
(* Integers as bit sets.                                                   *)
(***************************************************************************)
Pow2 == <<1, 2, 4, 8, 16, 32, 64, 128, 256, 512, 1024, 2048>>

\* a small non-negative Python int (below 2^12) as a bit set
FromInt(n) == {i \in 0..11 : (n \div Pow2[i + 1]) % 2 = 1}

RECURSIVE Sum(_, _)
Sum(x, i) == IF i > 11 THEN 0
             ELSE (IF i \in x THEN Pow2[i + 1] ELSE 0) + Sum(x, i + 1)

\* a bit set below 2^12 as a number
ToInt(x) == Sum(x, 0)

\* (1 << n) - 1
Mask(n) == 0..(n - 1)
\* x << k
Shl(x, k) == {b + k : b \in x}
\* x >> k
Shr(x, k) == {b - k : b \in {c \in x : c >= k}}
\* (x >> k) & ((1 << n) - 1)
Field(x, k, n) == {b \in 0..(n - 1) : b + k \in x}
\* (x >> k) & 0xF
Nibble(x, k) ==
    (IF k \in x THEN 1 ELSE 0) + (IF k + 1 \in x THEN 2 ELSE 0)
    + (IF k + 2 \in x THEN 4 ELSE 0) + (IF k + 3 \in x THEN 8 ELSE 0)

\* x & y
And(x, y) == x \cap y
\* x | y
Or(x, y) == x \cup y
\* x & ~y
AndNot(x, y) == x \ y

(***************************************************************************)
(* Enum classes.  A class is its identity (name, creation serial) and its  *)
(* definition in order; a member is (class, name, value).  A name whose    *)
(* value repeats an earlier one is an alias of the earlier member.         *)
(***************************************************************************)
EnumClass(name, n, items) == [cls |-> <<name, n>>, items |-> items]

\* the unset binding (_category_enum = None)
NoEnum == EnumClass("None", 0, << >>)
\* a class that is not an Enum subclass
PlainClass == EnumClass("object", 0, << >>)

NoMember == [cls |-> <<"None", 0>>, name |-> "", value |-> 0]

Item(n, v) == [name |-> n, value |-> v]

\* the default categories
Category ==
    EnumClass("Category", 0,
        <<Item("UNKNOWN", 0), Item("TYPE_A", 1), Item("TYPE_B", 2), Item("TYPE_C", 3)>>)

TestCategory ==
    EnumClass("TestCategory", 0,
        <<Item("RED", 10), Item("GREEN", 20), Item("BLUE", 30)>>)

BadCategory == EnumClass("BadCategory", 0, <<Item("TOO_BIG", 256)>>)

StaticEnums == {Category, TestCategory, BadCategory}

\* Category._value2member_map_ : value -> the first member defined with it
HasValue(E, v) == \E i \in 1..Len(E.items) : E.items[i].value = v

FirstWith(E, v) ==
    LET i == CHOOSE k \in 1..Len(E.items) :
                 /\ E.items[k].value = v
                 /\ \A j \in 1..(k - 1) : E.items[j].value # v
    IN  [cls |-> E.cls, name |-> E.items[i].name, value |-> v]

\* the members of a class (aliases are the member they repeat)
MembersOf(E) == {FirstWith(E, E.items[i].value) : i \in 1..Len(E.items)}

\* getattr(E, name)
MemberByName(E, n) ==
    LET i == CHOOSE k \in 1..Len(E.items) : E.items[k].name = n
    IN  FirstWith(E, E.items[i].value)

(***************************************************************************)
(* JSON payloads, as token sequences, and json.loads on them.              *)
(***************************************************************************)
Tok(t, s, n) == [t |-> t, s |-> s, n |-> n]
LB == Tok("{", "", 0)
RB == Tok("}", "", 0)
COMMA == Tok(",", "", 0)
COLON == Tok(":", "", 0)
TStr(s) == Tok("str", s, 0)
TNum(n) == Tok("num", "", n)
TNull == Tok("null", "", 0)

\* the payloads a caller hands to set_categories_from_json
Payloads ==
    { <<LB, TStr("LOW"), COLON, TNum(0), COMMA, TStr("MAX"), COLON, TNum(255),
        COMMA, TStr("BIG"), COLON, TNum(256), COMMA, TStr("NEG"), COLON, TNum(-1),
        COMMA, TStr("TOP"), COLON, TNum(255), RB>>,
      <<LB, TStr("A"), COLON, TNum(7), COMMA, TStr("A"), COLON, TNum(1), RB>>,
      <<LB, TStr("A"), COLON, TNum(1), COMMA, TStr("B"), COLON, TNum(2), COMMA, RB>>,
      <<LB, TStr("mro"), COLON, TNum(1), RB>>,
      <<TNum(123)>>,
      <<TNull>> }

EnumNames == {"DynamicCategory"}

JsonBad == [ok |-> FALSE, type |-> "", pairs |-> << >>, s |-> ""]
JsonDict(pairs) == [ok |-> TRUE, type |-> "dict", pairs |-> pairs, s |-> ""]
JsonScalar(t, s) == [ok |-> TRUE, type |-> t, pairs |-> << >>, s |-> s]

\* d[k] = v on a dict kept in insertion order
DictSet(d, k, v) ==
    IF \E i \in 1..Len(d) : d[i].name = k
    THEN [i \in 1..Len(d) |-> IF d[i].name = k THEN Item(k, v) ELSE d[i]]
    ELSE Append(d, Item(k, v))

RECURSIVE ParseMembers(_, _, _, _, _)
\* the object grammar: { } or { "k": n (, "k": n)* } and nothing after it
ParseMembers(toks, i, expect, key, acc) ==
    IF i > Len(toks) THEN JsonBad
    ELSE LET tk == toks[i] IN
         CASE expect = "first" /\ tk.t = "}" ->
                  IF i = Len(toks) THEN JsonDict(acc) ELSE JsonBad
           [] expect \in {"first", "key"} /\ tk.t = "str" ->
                  ParseMembers(toks, i + 1, "colon", tk.s, acc)
           [] expect = "colon" /\ tk.t = ":" ->
                  ParseMembers(toks, i + 1, "value", key, acc)
           [] expect = "value" /\ tk.t = "num" ->
                  ParseMembers(toks, i + 1, "next", "", DictSet(acc, key, tk.n))
           [] expect = "next" /\ tk.t = "," ->
                  ParseMembers(toks, i + 1, "key", "", acc)
           [] expect = "next" /\ tk.t = "}" ->
                  IF i = Len(toks) THEN JsonDict(acc) ELSE JsonBad
           [] OTHER -> JsonBad

\* json.loads(json_payload): JsonBad stands for json.JSONDecodeError
json_loads(toks) ==
    IF Len(toks) = 0 THEN JsonBad
    ELSE IF toks[1].t = "{" THEN ParseMembers(toks, 2, "first", "", << >>)
    ELSE IF Len(toks) = 1 /\ toks[1].t = "num" THEN JsonScalar("int", "")
    ELSE IF Len(toks) = 1 /\ toks[1].t = "null" THEN JsonScalar("null", "")
    ELSE IF Len(toks) = 1 /\ toks[1].t = "str" THEN JsonScalar("str", toks[1].s)
    ELSE JsonBad

\* names the enum machinery refuses as member names
ReservedNames == {"mro", "_x_"}

\* Enum(enum_name, categories): the class, or the exception it raises.  A dict
\* gives its items; a string (of one word) names one member, numbered 1; a number
\* or None cannot be iterated.
EnumFunctional(enum_name, n, categories) ==
    LET names == IF categories.type = "str" THEN <<Item(categories.s, 1)>>
                 ELSE categories.pairs
    IN  IF categories.type \notin {"dict", "str"}
        THEN [raised |-> "TypeError", class |-> NoEnum]
        ELSE IF \E i \in 1..Len(names) : names[i].name \in ReservedNames
        THEN [raised |-> "ValueError", class |-> NoEnum]
        ELSE [raised |-> "", class |-> EnumClass(enum_name, n, names)]

(***************************************************************************)
(* CategoryProvider.                                                       *)
(***************************************************************************)
IsEnumSubclass(E) == E.cls[1] \notin {"object", "None"}

\* the default returned with the test inverted
get_categories_Inverted(ce) == IF ce # NoEnum THEN Category ELSE ce

\* CategoryProvider.get_categories()
get_categories(ce) == IF ce = NoEnum THEN Category ELSE ce

\* CategoryProvider.set_categories(category_enum): the binding it leaves
set_categories(ce, E) ==
    IF ~IsEnumSubclass(E) THEN [raised |-> "TypeError", binding |-> ce]
    ELSE [raised |-> "", binding |-> E]

\* the handler catching json.JSONDecodeError alone: a TypeError escapes as it is
set_categories_from_json_DecodeOnly(ce, json_payload, enum_name, n) ==
    LET categories == json_loads(json_payload)
        made == EnumFunctional(enum_name, n, categories)
        stored == set_categories(ce, made.class)
    IN  IF ~categories.ok
        THEN [raised |-> "ValueError", cause |-> "JSONDecodeError", class |-> NoEnum,
              made |-> FALSE, binding |-> ce]
        ELSE IF made.raised # ""
        THEN [raised |-> made.raised, cause |-> "", class |-> NoEnum,
              made |-> FALSE, binding |-> ce]
        ELSE [raised |-> stored.raised, cause |-> "", class |-> made.class,
              made |-> TRUE, binding |-> stored.binding]

\* CategoryProvider.set_categories_from_json(json_payload, enum_name): the exception
\* and its cause, the class built, and the binding it leaves
set_categories_from_json(ce, json_payload, enum_name, n) ==
    LET categories == json_loads(json_payload)
        made == EnumFunctional(enum_name, n, categories)
        stored == set_categories(ce, made.class)
    IN  IF ~categories.ok
        THEN [raised |-> "ValueError", cause |-> "JSONDecodeError", class |-> NoEnum,
              made |-> FALSE, binding |-> ce]
        ELSE IF made.raised = "TypeError"
        THEN [raised |-> "ValueError", cause |-> "TypeError", class |-> NoEnum,
              made |-> FALSE, binding |-> ce]
        ELSE IF made.raised # ""
        THEN [raised |-> made.raised, cause |-> "", class |-> NoEnum,
              made |-> FALSE, binding |-> ce]
        ELSE IF stored.raised = "TypeError"
        THEN [raised |-> "ValueError", cause |-> "TypeError", class |-> made.class,
              made |-> TRUE, binding |-> stored.binding]
        ELSE [raised |-> "", cause |-> "", class |-> made.class,
              made |-> TRUE, binding |-> stored.binding]

\* CategoryProvider.reset(): the binding it leaves
reset == NoEnum

(***************************************************************************)
(* uuid.UUID, as far as uuidcat.py uses it.                                *)
(***************************************************************************)
UUID_VERSION == 7
UUID_VARIANT_RFC4122_BITS == 2

\* uuid.UUID(int=x) raises ValueError unless 0 <= x < 1 << 128
UUIDIntOk(x) == x \subseteq 0..127

\* UUID.variant
variant(x) ==
    IF 63 \notin x THEN "reserved for NCS compatibility"
    ELSE IF 62 \notin x THEN "specified in RFC 4122"
    ELSE IF 61 \notin x THEN "reserved for Microsoft compatibility"
    ELSE "reserved for future definition"

RFC_4122 == "specified in RFC 4122"

\* UUID.version: the nibble for an RFC 4122 UUID, None (here -1) otherwise
version(x) ==
    IF variant(x) = RFC_4122 THEN Nibble(x, 76) ELSE -1

HexDigits == <<"0", "1", "2", "3", "4", "5", "6", "7",
               "8", "9", "a", "b", "c", "d", "e", "f">>
HexUpper == <<"0", "1", "2", "3", "4", "5", "6", "7",
              "8", "9", "A", "B", "C", "D", "E", "F">>

HexChars == {HexDigits[k] : k \in 1..16} \cup {HexUpper[k] : k \in 1..16}
\* the value of a hexadecimal digit
HexVal == [c \in HexChars |-> (CHOOSE k \in 1..16 : HexDigits[k] = c \/ HexUpper[k] = c) - 1]

\* str(UUID): '%032x' % int, cut 8-4-4-4-12 with hyphens
UUIDToStr(x) ==
    [i \in 1..36 |->
        IF i \in {9, 14, 19, 24} THEN "-"
        ELSE LET d == i - Cardinality({h \in {9, 14, 19, 24} : h < i})
             IN  HexDigits[Nibble(x, 4 * (32 - d)) + 1]]

Occurs(s, pat) ==
    \E i \in 1..(Len(s) - Len(pat) + 1) : \A j \in 1..Len(pat) : s[i + j - 1] = pat[j]

RECURSIVE Cut(_, _)
Cut(s, pat) ==
    IF Len(s) < Len(pat) THEN s
    ELSE IF SubSeq(s, 1, Len(pat)) = pat
    THEN Cut(SubSeq(s, Len(pat) + 1, Len(s)), pat)
    ELSE <<Head(s)>> \o Cut(Tail(s), pat)

\* s.replace(pat, '')
RemoveAll(s, pat) ==
    IF Len(pat) = 1 THEN SelectSeq(s, LAMBDA c : c # pat[1])
    ELSE IF Occurs(s, pat) THEN Cut(s, pat)
    ELSE s

RECURSIVE StripBraces(_)
\* s.strip('{}')
StripBraces(s) ==
    IF s = << >> THEN s
    ELSE IF Head(s) \in {"{", "}"} THEN StripBraces(Tail(s))
    ELSE IF s[Len(s)] \in {"{", "}"} THEN StripBraces(SubSeq(s, 1, Len(s) - 1))
    ELSE s

\* the bits of each hexadecimal digit
NibbleBits == [v \in 0..15 |-> FromInt(v)]

\* int(hex, 16) of hexadecimal digits, as a bit set
HexToInt(hex) ==
    UNION {Shl(NibbleBits[HexVal[hex[i]]], 4 * (Len(hex) - i)) : i \in 1..Len(hex)}

\* uuid.UUID(text): ok = FALSE stands for the ValueError of a badly formed string.
\* (int(hex, 16) is modelled on hexadecimal digits; no input here carries a sign,
\* an underscore, blanks or a 0x prefix.)
UUIDFromStr(text) ==
    LET hex == RemoveAll(
                   StripBraces(
                       RemoveAll(RemoveAll(text, <<"u", "r", "n", ":">>),
                                 <<"u", "u", "i", "d", ":">>)),
                   <<"-">>)
    IN  IF Len(hex) # 32 \/ \E i \in 1..Len(hex) : hex[i] \notin HexChars
        THEN [ok |-> FALSE, int |-> {}]
        ELSE [ok |-> TRUE, int |-> HexToInt(hex)]

(***************************************************************************)
(* UUIDv7Cat.                                                              *)
(***************************************************************************)
NoArg == [kind |-> "none", int |-> {}, text |-> << >>]
AsCat(x) == [kind |-> "UUIDv7Cat", int |-> x, text |-> << >>]
AsUUID(x) == [kind |-> "UUID", int |-> x, text |-> << >>]
AsStr(s) == [kind |-> "str", int |-> {}, text |-> s]
AsOther == [kind |-> "int", int |-> {}, text |-> << >>]

\* the constructor without its version test
init_NoVersionTest(u) ==
    IF u.kind \notin {"str", "UUID"}
    THEN [raised |-> "TypeError", int |-> {}]
    ELSE LET parsed == IF u.kind = "str" THEN UUIDFromStr(u.text)
                       ELSE [ok |-> TRUE, int |-> u.int]
         IN  IF ~parsed.ok THEN [raised |-> "ValueError", int |-> {}]
             ELSE [raised |-> "", int |-> parsed.int]

\* UUIDv7Cat.__init__(u): the exception raised, or the int of the new instance
init(u) ==
    IF u.kind \notin {"str", "UUID"}
    THEN [raised |-> "TypeError", int |-> {}]
    ELSE LET parsed == IF u.kind = "str" THEN UUIDFromStr(u.text)
                       ELSE [ok |-> TRUE, int |-> u.int]
         IN  IF ~parsed.ok THEN [raised |-> "ValueError", int |-> {}]
             ELSE IF version(parsed.int) # UUID_VERSION
             THEN [raised |-> "ValueError", int |-> {}]
             ELSE [raised |-> "", int |-> parsed.int]

\* the range check with its upper end off by one
CatValueInRange_Upto256(v) == 0 <= v /\ v <= 256

\* the range check that opens UUIDv7Cat.new
CatValueInRange(v) == 0 <= v /\ v <= 255

\* the assembly with the category in the first byte (bits 120..127)
NewInt_FirstByte(cat_value, unix_ts_ms, rand_int) ==
    LET ts_field == And(unix_ts_ms, Mask(48))
        rand_a == And(Shr(rand_int, 62), Mask(12))
        rand_b == And(rand_int, Mask(62))
        cat_field == And(FromInt(cat_value), FromInt(255))
        uuid_int == Or(Or(Or(Or(Shl(ts_field, 80),
                                Shl(FromInt(UUID_VERSION), 76)),
                             Shl(rand_a, 64)),
                          Shl(FromInt(UUID_VARIANT_RFC4122_BITS), 62)),
                       rand_b)
        cleared_int == AndNot(uuid_int, Shl(FromInt(255), 120))
    IN  Or(cleared_int, Shl(cat_field, 120))

\* the assembly with rand_a left unmasked, so that the draw reaches the version
NewInt_UnmaskedRandA(cat_value, unix_ts_ms, rand_int) ==
    LET ts_field == And(unix_ts_ms, Mask(48))
        rand_a == Shr(rand_int, 62)
        rand_b == And(rand_int, Mask(62))
        cat_field == And(FromInt(cat_value), FromInt(255))
        uuid_int == Or(Or(Or(Or(Shl(ts_field, 80),
                                Shl(FromInt(UUID_VERSION), 76)),
                             Shl(rand_a, 64)),
                          Shl(FromInt(UUID_VARIANT_RFC4122_BITS), 62)),
                       rand_b)
        cleared_int == AndNot(uuid_int, Shl(FromInt(255), 68))
    IN  Or(cleared_int, Shl(cat_field, 68))

\* the 128-bit integer UUIDv7Cat.new builds
NewInt(cat_value, unix_ts_ms, rand_int) ==
    LET ts_field == And(unix_ts_ms, Mask(48))
        rand_a == And(Shr(rand_int, 62), Mask(12))
        rand_b == And(rand_int, Mask(62))
        cat_field == And(FromInt(cat_value), FromInt(255))
        uuid_int == Or(Or(Or(Or(Shl(ts_field, 80),
                                Shl(FromInt(UUID_VERSION), 76)),
                             Shl(rand_a, 64)),
                          Shl(FromInt(UUID_VARIANT_RFC4122_BITS), 62)),
                       rand_b)
        cleared_int == AndNot(uuid_int, Shl(FromInt(255), 68))
    IN  Or(cleared_int, Shl(cat_field, 68))

\* the check on the version nibble alone, the variant not looked at
basic_validity_check_NibbleOnly(u) ==
    LET parsed == IF u.kind = "str" THEN UUIDFromStr(u.text)
                  ELSE [ok |-> TRUE, int |-> u.int]
    IN  IF ~parsed.ok THEN [some |-> FALSE, int |-> {}]
        ELSE IF Nibble(parsed.int, 76) = UUID_VERSION
        THEN [some |-> TRUE, int |-> parsed.int]
        ELSE [some |-> FALSE, int |-> {}]

\* UUIDv7Cat._basic_validity_check(u): None, or the UUID (its int)
basic_validity_check(u) ==
    LET parsed == IF u.kind = "str" THEN UUIDFromStr(u.text)
                  ELSE [ok |-> TRUE, int |-> u.int]
    IN  IF ~parsed.ok THEN [some |-> FALSE, int |-> {}]
        ELSE IF version(parsed.int) = UUID_VERSION /\ variant(parsed.int) = RFC_4122
        THEN [some |-> TRUE, int |-> parsed.int]
        ELSE [some |-> FALSE, int |-> {}]

\* the category byte read through a four-bit mask
TypeId_Mask0F(x) == ToInt(Field(x, 68, 4))

\* the category byte read four bits too low
TypeId_Shift64(x) == ToInt(Field(x, 64, 8))

\* (int >> 68) & 0xFF
TypeId(x) == ToInt(Field(x, 68, 8))

\* the lookup shared by get_category and the category property
Lookup(Cat, type_id) ==
    IF HasValue(Cat, type_id)
    THEN [some |-> TRUE, member |-> FirstWith(Cat, type_id)]
    ELSE [some |-> FALSE, member |-> NoMember]

\* UUIDv7Cat.category
category(ce, x) == Lookup(get_categories(ce), TypeId(x))

\* UUIDv7Cat.get_category(u)
get_category(ce, u) ==
    LET Cat == get_categories(ce)
        u_obj == basic_validity_check(u)
    IN  IF u_obj.some THEN Lookup(Cat, TypeId(u_obj.int))
        ELSE [some |-> FALSE, member |-> NoMember]

\* UUIDv7Cat.get_timestamp_sec(u): None, or the text of gmtime(timestamp_part / 1000);
\* the text is kept as the timestamp_part it is formatted from
get_timestamp_sec(u) ==
    LET u_obj == basic_validity_check(u)
    IN  IF u_obj.some THEN [some |-> TRUE, timestamp_part |-> Shr(u_obj.int, 80)]
        ELSE [some |-> FALSE, timestamp_part |-> {}]

\* validity taken from the structure alone, without the registry
is_valid_Structural(ce, u) == basic_validity_check(u).some

\* UUIDv7Cat.is_valid(u)
is_valid(ce, u) == get_category(ce, u).some

(***************************************************************************)
(* What a call was given and what it gave back.                            *)
(***************************************************************************)
Readable(u) == u.kind \in {"str", "UUID", "UUIDv7Cat"}

Ret0(op) ==
    [op |-> op, arg |-> NoArg, payload |-> << >>, raised |-> "", cause |-> "",
     cat |-> NoMember, some |-> FALSE, member |-> NoMember, flag |-> FALSE,
     value |-> {}, enum |-> NoEnum, effects |-> << >>]

NoObj == [exists |-> FALSE, int |-> {}, minted |-> FALSE, cat |-> NoMember,
          unix_ts_ms |-> {}, rand_int |-> {}]

\* a call of category / get_category / is_valid in progress in one thread: the
\* line it is at, its local Category, and what it gave back; during is the
\* history of the domains get_categories would have returned while it ran
NoFrame == [pc |-> "idle", op |-> "", u |-> NoArg, Category |-> NoEnum,
            raised |-> "", some |-> FALSE, member |-> NoMember, flag |-> FALSE,
            during |-> {}]


(***************************************************************************)
(* The inputs of the calls.                                                *)
(***************************************************************************)
\* (int(time.time() * 1000), int.from_bytes(os.urandom(10), "big")): a 41-bit
\* clock with a sparse draw, and a clock past 48 bits with a draw of all ones
Readings == { <<{3, 17, 29, 40}, {0, 61, 62, 65, 66, 73, 78}>>,
              <<(0..48) \cup {50}, 0..79>> }

\* the categories a caller may hold: members of the enum in force, and of BadCategory
MintCats(ce) == MembersOf(get_categories(ce)) \cup MembersOf(BadCategory)

\* (x & ~(0xFF << 68)) | (t << 68), as the tests build an unknown category
SetTag(x, t) == Or(AndNot(x, Shl(FromInt(255), 68)), Shl(FromInt(t), 68))
SetVersion(x, v) == Or(AndNot(x, Shl(FromInt(15), 76)), Shl(FromInt(v), 76))
SetVariantBits(x, v) == Or(AndNot(x, Shl(FromInt(3), 62)), Shl(FromInt(v), 62))

\* a version 7 UUID to derive candidates from when nothing was minted yet
BaseInt == {63, 76, 77, 78}

UnknownTag == 99

NotAUUID == <<"n", "o", "t", "-", "a", "-", "u", "u", "i", "d">>

\* the value the candidates are derived from
Base(o) == IF o.exists THEN o.int ELSE BaseInt

\* the UUID objects a caller may pass: the minted one, and ones that differ from it
\* in the category byte, the version or the variant
UUIDCands(o) ==
    LET b == Base(o)
    IN  {AsUUID(b), AsUUID(SetTag(b, UnknownTag)), AsUUID(SetVersion(b, 4)),
         AsUUID(SetVariantBits(b, 3)), AsUUID(SetVariantBits(b, 0))}

\* the strings a caller may pass
StrCands(o) ==
    LET b == Base(o)
    IN  {AsStr(UUIDToStr(b)), AsStr(UUIDToStr(SetVersion(b, 4))), AsStr(NotAUUID)}

Given(o) == UUIDCands(o) \cup StrCands(o)
Cands(o) == LET g == Given(o) IN
    g \cup {AsCat(init(u).int) : u \in {c \in g : c.kind = "UUID" /\ init(c).raised = ""}}

Init ==
    /\ category_enum = NoEnum
    /\ serial = 0
    /\ obj = NoObj
    /\ ret = Ret0("start")
    /\ installed = NoEnum
    /\ frame = NoFrame

\* CategoryProvider.set_categories(category_enum)
SetCategories(E) ==
    LET out == set_categories(category_enum, E) IN
    /\ category_enum' = out.binding
    /\ ret' = [Ret0("set_categories") EXCEPT !.enum = E, !.raised = out.raised]
    /\ installed' = IF out.raised = "" THEN E ELSE installed
    /\ UNCHANGED <<serial, obj, frame>>

\* CategoryProvider.set_categories_from_json(json_payload, enum_name)
SetCategoriesFromJson(json_payload, enum_name) ==
    LET out == set_categories_from_json(category_enum, json_payload, enum_name, serial + 1)
    IN  /\ out.raised = "" => serial < MaxDynamic
        /\ category_enum' = out.binding
        /\ serial' = IF out.made THEN serial + 1 ELSE serial
        /\ ret' = [Ret0("set_categories_from_json") EXCEPT
                      !.payload = json_payload, !.raised = out.raised,
                      !.cause = out.cause, !.enum = out.class]
        /\ installed' = IF out.raised = "" THEN out.class ELSE installed
        /\ UNCHANGED <<obj, frame>>

\* CategoryProvider.get_categories(), called by the user
GetCategories ==
    /\ ret' = [Ret0("get_categories") EXCEPT !.enum = get_categories(category_enum)]
    /\ UNCHANGED <<category_enum, serial, obj, installed, frame>>

\* CategoryProvider.reset()
Reset ==
    /\ category_enum' = reset
    /\ ret' = Ret0("reset")
    /\ installed' = NoEnum
    /\ UNCHANGED <<serial, obj, frame>>

\* UUIDv7Cat.new(cat)
New(cat, unix_ts_ms, rand_int) ==
    LET r == [Ret0("new") EXCEPT !.cat = cat] IN
    IF ~CatValueInRange(cat.value)
    THEN /\ ret' = [r EXCEPT !.raised = "ValueError"]
         /\ UNCHANGED <<category_enum, serial, obj, installed, frame>>
    ELSE LET uuid_int == NewInt(cat.value, unix_ts_ms, rand_int)
             made == init(AsUUID(uuid_int))
             drawn == [r EXCEPT !.effects = <<"time.time", "os.urandom">>]
         IN  IF ~UUIDIntOk(uuid_int) \/ made.raised # ""
             THEN /\ ret' = [drawn EXCEPT !.raised = "ValueError"]
                  /\ UNCHANGED <<category_enum, serial, obj, installed, frame>>
             ELSE /\ obj' = [exists |-> TRUE, int |-> made.int, minted |-> TRUE,
                             cat |-> cat, unix_ts_ms |-> unix_ts_ms,
                             rand_int |-> rand_int]
                  /\ ret' = [drawn EXCEPT !.some = TRUE, !.value = made.int]
                  /\ UNCHANGED <<category_enum, serial, installed, frame>>

\* UUIDv7Cat(u)
Construct(u) ==
    LET made == init(u) IN
    /\ ret' = [Ret0("__init__") EXCEPT !.arg = u, !.raised = made.raised,
                                       !.some = (made.raised = ""),
                                       !.value = made.int]
    /\ UNCHANGED <<category_enum, serial, obj, installed, frame>>

\* instance.category
CategoryProp(u) ==
    LET got == category(category_enum, u.int) IN
    /\ u.kind = "UUIDv7Cat"
    /\ ret' = [Ret0("category") EXCEPT !.arg = u, !.some = got.some,
                                       !.member = got.member]
    /\ UNCHANGED <<category_enum, serial, obj, installed, frame>>

\* UUIDv7Cat._basic_validity_check(u)
BasicValidityCheck(u) ==
    LET got == basic_validity_check(u) IN
    /\ Readable(u)
    /\ ret' = [Ret0("_basic_validity_check") EXCEPT !.arg = u, !.some = got.some,
                                                    !.value = got.int]
    /\ UNCHANGED <<category_enum, serial, obj, installed, frame>>

\* UUIDv7Cat.get_category(u)
GetCategory(u) ==
    LET got == get_category(category_enum, u) IN
    /\ Readable(u)
    /\ ret' = [Ret0("get_category") EXCEPT !.arg = u, !.some = got.some,
                                           !.member = got.member]
    /\ UNCHANGED <<category_enum, serial, obj, installed, frame>>

\* UUIDv7Cat.get_timestamp_sec(u)
GetTimestampSec(u) ==
    LET got == get_timestamp_sec(u) IN
    /\ Readable(u)
    /\ ret' = [Ret0("get_timestamp_sec") EXCEPT !.arg = u, !.some = got.some,
                                                !.value = got.timestamp_part]
    /\ UNCHANGED <<category_enum, serial, obj, installed, frame>>

\* UUIDv7Cat.is_valid(u)
IsValid(u) ==
    /\ Readable(u)
    /\ ret' = [Ret0("is_valid") EXCEPT !.arg = u, !.some = TRUE,
                                       !.flag = is_valid(category_enum, u)]
    /\ UNCHANGED <<category_enum, serial, obj, installed, frame>>

Next ==
    \/ \E E \in StaticEnums \cup {PlainClass} : SetCategories(E)
    \/ \E p \in Payloads, n \in EnumNames : SetCategoriesFromJson(p, n)
    \/ GetCategories
    \/ Reset
    \/ \E cat \in MintCats(category_enum), rd \in Readings : New(cat, rd[1], rd[2])
    \/ \E u \in Cands(obj) \cup {AsOther} :
           \/ Construct(u)
           \/ CategoryProp(u)
           \/ BasicValidityCheck(u)
           \/ GetCategory(u)
           \/ GetTimestampSec(u)
           \/ IsValid(u)

Spec == Init /\ [][Next]_vars

(***************************************************************************)
(* The readers run line by line in one thread while another thread calls   *)
(* set_categories and reset.  Each step holds at most one access to        *)
(* CategoryProvider._category_enum; what follows the return of             *)
(* get_categories works on locals only.                                    *)
(***************************************************************************)
\* the values the reading thread is handed: tags 1 (Category.TYPE_A), 10
\* (TestCategory.RED) and 99, and a version 4 value
ThreadInts == {SetTag(BaseInt, 1), SetTag(BaseInt, 10), SetTag(BaseInt, UnknownTag),
               SetVersion(BaseInt, 4)}

ThreadArgs ==
    {AsUUID(x) : x \in ThreadInts}
    \cup {AsCat(init(AsUUID(x)).int) : x \in {y \in ThreadInts : init(AsUUID(y)).raised = ""}}
    \cup {AsStr(UUIDToStr(SetTag(BaseInt, 10))), AsStr(NotAUUID)}

Running == frame.pc \notin {"idle", "done"}

\* the history kept while a call runs
Seen(binding) ==
    IF Running THEN [frame EXCEPT !.during = @ \cup {get_categories(binding)}]
    ELSE frame

\* the other thread: CategoryProvider.set_categories(category_enum)
OtherSetCategories(E) ==
    LET out == set_categories(category_enum, E) IN
    /\ category_enum' = out.binding
    /\ installed' = IF out.raised = "" THEN E ELSE installed
    /\ frame' = Seen(out.binding)
    /\ UNCHANGED <<serial, obj, ret>>

\* the other thread: CategoryProvider.reset()
OtherReset ==
    /\ category_enum' = reset
    /\ installed' = NoEnum
    /\ frame' = Seen(reset)
    /\ UNCHANGED <<serial, obj, ret>>

\* the reading thread enters instance.category, get_category(u) or is_valid(u)
\* and from there CategoryProvider.get_categories()
Call(op, u) ==
    /\ ~Running
    /\ IF op = "category" THEN u.kind = "UUIDv7Cat" ELSE Readable(u)
    /\ frame' = [NoFrame EXCEPT !.pc = "line50", !.op = op, !.u = u,
                                !.during = {get_categories(category_enum)}]
    /\ UNCHANGED <<category_enum, serial, obj, ret, installed>>

\* category_provider.py line 50: if cls._category_enum is None: ... return Category
Line50 ==
    /\ frame.pc = "line50"
    /\ frame' = IF category_enum = NoEnum
                THEN [frame EXCEPT !.pc = "returned", !.Category = Category]
                ELSE [frame EXCEPT !.pc = "line55"]
    /\ UNCHANGED <<category_enum, serial, obj, ret, installed>>

\* category_provider.py line 55: return cls._category_enum
Line55 ==
    /\ frame.pc = "line55"
    /\ frame' = [frame EXCEPT !.pc = "returned", !.Category = category_enum]
    /\ UNCHANGED <<category_enum, serial, obj, ret, installed>>

\* the rest of the reader, on its locals: uuidcat.py lines 51-55, 155-160, 195.
\* Category._value2member_map_ of None raises AttributeError.
Finish ==
    LET u_obj == IF frame.op = "category" THEN [some |-> TRUE, int |-> frame.u.int]
                 ELSE basic_validity_check(frame.u)
        got == Lookup(frame.Category, TypeId(u_obj.int))
    IN  /\ frame.pc = "returned"
        /\ frame' =
               IF ~u_obj.some THEN [frame EXCEPT !.pc = "done"]
               ELSE IF frame.Category = NoEnum
               THEN [frame EXCEPT !.pc = "done", !.raised = "AttributeError"]
               ELSE [frame EXCEPT !.pc = "done", !.some = got.some,
                                  !.member = got.member,
                                  !.flag = (frame.op = "is_valid" /\ got.some)]
        /\ UNCHANGED <<category_enum, serial, obj, ret, installed>>

NextThreads ==
    \/ \E E \in StaticEnums \cup {PlainClass} : OtherSetCategories(E)
    \/ OtherReset
    \/ \E op \in {"category", "get_category", "is_valid"}, u \in ThreadArgs : Call(op, u)
    \/ Line50
    \/ Line55
    \/ Finish

SpecThreads == Init /\ [][NextThreads]_vars

(***************************************************************************)
(* Properties.  They are stated on the layout of the 128-bit value and on  *)
(* the history of the registry, not through the operators above.           *)
(***************************************************************************)
\* the domain in force according to the history of set / reset calls
ActiveDomain == IF installed = NoEnum THEN Category ELSE installed

CodesOf(E) == {E.items[i].value : i \in 1..Len(E.items)}

VersionBits(x) == x \cap 76..79
VariantBits(x) == x \cap 62..63
TagBits(x) == x \cap 68..75
\* version nibble 7 = 0b0111 and variant 0b10
IsV7(x) == VersionBits(x) = {76, 77, 78} /\ VariantBits(x) = {63}
\* the byte in bits 68..75, as a number
TagOf(x) == ToInt({b - 68 : b \in TagBits(x)})

\* the forms in which the minted identifier is handed to a read
MintedForms == {AsCat(obj.int), AsUUID(obj.int), AsStr(UUIDToStr(obj.int))}

\* C1: reading the category of a freshly minted identifier, as the instance
\* property, through get_category on the instance and on its canonical string,
\* gives back the category it was minted with, as long as that category is a
\* member of the domain in force at the read.
C1_RoundTrip ==
    (/\ ret.op \in {"category", "get_category"}
     /\ obj.minted
     /\ ret.arg \in MintedForms
     /\ obj.cat \in MembersOf(ActiveDomain))
    => (ret.raised = "" /\ ret.some /\ ret.member = obj.cat)

C1_Witness ==
    /\ ret.op = "get_category"
    /\ obj.minted
    /\ ret.arg = AsStr(UUIDToStr(obj.int))
    /\ obj.cat \in MembersOf(ActiveDomain)
    /\ obj.cat.cls[1] = "DynamicCategory"
    /\ obj.cat.value = 255
    /\ ret.member = obj.cat

\* C2: every mint with a code in 0..255 returns a value whose bits 76..79 are
\* 0111 and whose bits 62..63 are 10, whatever the clock, the draw and the code.
C2_VersionVariant ==
    (ret.op = "new" /\ ret.cat.value \in 0..255)
    => (ret.raised = "" /\ ret.some /\ IsV7(ret.value) /\ obj.int = ret.value)

C2_Witness ==
    /\ ret.op = "new"
    /\ ret.some
    /\ ret.cat.value = 255
    /\ obj.rand_int = 0..79
    /\ 48 \in obj.unix_ts_ms
    /\ IsV7(ret.value)

\* C3: a mint with a code outside 0..255 raises ValueError before the clock or
\* the random source is touched, makes no identifier and leaves the registry
\* alone; a mint with a code in 0..255, 0 and 255 included, succeeds.
C3_RangeEnforced ==
    [][ret'.op = "new" =>
         IF ret'.cat.value \in 0..255
         THEN ret'.raised = "" /\ ret'.some /\ obj'.exists /\ obj'.cat = ret'.cat
         ELSE /\ ret'.raised = "ValueError"
              /\ ret'.effects = << >>
              /\ ~ret'.some
              /\ ret'.value = {}
              /\ UNCHANGED <<category_enum, installed, serial, obj>>]_vars

C3_Witness ==
    /\ ret.op = "new"
    /\ ret.cat.value = 256
    /\ ret.raised = "ValueError"
    /\ ret.effects = << >>
    /\ obj.exists
    /\ obj.cat.value \in {0, 255}

ReadOps == {"_basic_validity_check", "get_category", "get_timestamp_sec", "is_valid"}

\* the 128-bit values a candidate stands for: its own, or the one a string spells
Denoted(u) ==
    IF u.kind \in {"UUID", "UUIDv7Cat"} THEN {u.int}
    ELSE {x \in {Base(obj), SetVersion(Base(obj), 4)} : u.text = UUIDToStr(x)}

\* C4: for a version 7, variant 10 identifier whose byte in bits 68..75 is no
\* code of the domain in force, category and get_category return None and
\* is_valid returns False, none of them raising, while _basic_validity_check
\* still returns the identifier's 128-bit value.
C4_UnknownTag ==
    \A x \in Denoted(ret.arg) :
        (IsV7(x) /\ TagOf(x) \notin CodesOf(ActiveDomain)) =>
            /\ ret.op \in ReadOps \cup {"category"} => ret.raised = ""
            /\ ret.op \in {"category", "get_category"} =>
                   (~ret.some /\ ret.member = NoMember)
            /\ ret.op = "is_valid" => ret.flag = FALSE
            /\ ret.op = "_basic_validity_check" => (ret.some /\ ret.value = x)

C4_Witness ==
    /\ ret.op = "get_category"
    /\ ret.arg = AsCat(SetTag(obj.int, UnknownTag))
    /\ obj.minted
    /\ installed = TestCategory
    /\ obj.cat.name = "RED"
    /\ IsV7(ret.arg.int)
    /\ ~ret.some

\* C5: is_valid of an unchanged minted identifier is True exactly when the code
\* it was minted with is a code of the domain in force at that read, whatever
\* set and reset calls came between the mint and the read.
C5_Rebinding ==
    (ret.op = "is_valid" /\ obj.minted /\ ret.arg \in MintedForms)
    => (ret.raised = "" /\ ret.flag = (obj.cat.value \in CodesOf(ActiveDomain)))

C5_Witness ==
    /\ ret.op = "is_valid"
    /\ obj.minted
    /\ ret.arg = AsCat(obj.int)
    /\ obj.cat = MemberByName(TestCategory, "RED")
    /\ installed = Category
    /\ ret.flag = FALSE

\* what the claim calls structurally invalid: text that spells no UUID, or a
\* value whose version nibble is not 7 or whose variant bits are not 10
Malformed(u) ==
    \/ u.kind = "str" /\ Denoted(u) = {}
    \/ \E x \in Denoted(u) : ~IsV7(x)

\* C6: for a candidate that is unparsable text, or has a version nibble other
\* than 7, or variant bits other than 10, _basic_validity_check, get_category
\* and get_timestamp_sec return None and is_valid returns False, under every
\* domain and without raising.
C6_StructuralRejection ==
    (ret.op \in ReadOps /\ Malformed(ret.arg)) =>
        /\ ret.raised = ""
        /\ ret.op # "is_valid" => (~ret.some /\ ret.member = NoMember /\ ret.value = {})
        /\ ret.op = "is_valid" => ret.flag = FALSE

C6_Witness ==
    /\ ret.op = "get_category"
    /\ ret.arg = AsUUID(SetVariantBits(obj.int, 3))
    /\ obj.minted
    /\ VersionBits(ret.arg.int) = {76, 77, 78}
    /\ TagOf(ret.arg.int) \in CodesOf(ActiveDomain)
    /\ ~ret.some

\* C7: the binding is unset at the start and is at every moment the class of the
\* last set_categories / set_categories_from_json call that returned, unless a
\* reset came after it; get_categories returns that class, or the default
\* Category (UNKNOWN=0, TYPE_A=1, TYPE_B=2, TYPE_C=3) when there is none, and
\* leaves the binding as it was; a set_categories_from_json call that raises
\* leaves the binding as it was.
C7_RegistryHistory ==
    /\ category_enum = installed
    /\ ret.op = "get_categories" =>
           /\ ret.raised = ""
           /\ ret.enum = IF installed = NoEnum
                         THEN EnumClass("Category", 0,
                                  <<Item("UNKNOWN", 0), Item("TYPE_A", 1),
                                    Item("TYPE_B", 2), Item("TYPE_C", 3)>>)
                         ELSE installed

C7_Witness ==
    /\ ret.op = "get_categories"
    /\ serial = 1
    /\ installed = NoEnum
    /\ obj.minted
    /\ ret.enum = Category

\* the object grammar, position by position: { } or { "k" : n , ... "k" : n }
WellFormedObject(p) ==
    /\ Len(p) >= 2
    /\ p[1].t = "{"
    /\ p[Len(p)].t = "}"
    /\ \/ Len(p) = 2
       \/ /\ (Len(p) - 1) % 4 = 0
          /\ \A k \in 0..(((Len(p) - 1) \div 4) - 1) :
                 /\ p[2 + 4 * k].t = "str"
                 /\ p[3 + 4 * k].t = ":"
                 /\ p[4 + 4 * k].t = "num"
                 /\ p[5 + 4 * k].t = IF 5 + 4 * k = Len(p) THEN "}" ELSE ","

BareScalar(p) == Len(p) = 1 /\ p[1].t \in {"num", "null"}

PayloadNames(p) == {p[i].s : i \in {k \in 1..Len(p) : p[k].t = "str"}}

\* the code a name ends up with: the one that follows its last occurrence
LastValue(p, name) ==
    LET at == {k \in 1..Len(p) : p[k].t = "str" /\ p[k].s = name}
        last == CHOOSE k \in at : \A j \in at : j <= k
    IN  p[last + 2].n

HasBadCode(p) == \E name \in PayloadNames(p) : LastValue(p, name) \notin 0..255
HasDupCode(p) ==
    \E a, b \in PayloadNames(p) : a # b /\ LastValue(p, a) = LastValue(p, b)

C9_IdentifierInvariant ==
    /\ obj.exists => IsV7(obj.int)
    /\ (ret.op \in {"__init__", "new"} /\ ret.raised = "") =>
           /\ ret.some
           /\ IsV7(ret.value)
           /\ basic_validity_check(AsCat(ret.value)) = [some |-> TRUE, int |-> ret.value]
    /\ (ret.op = "__init__" /\ ret.raised = "") => Denoted(ret.arg) = {ret.value}

C9_Witness ==
    /\ ret.op = "__init__"
    /\ ret.arg.kind = "str"
    /\ ret.raised = ""
    /\ obj.minted
    /\ ret.value = obj.int
    /\ IsV7(ret.value)

\* the value outside bits 68..75, from the clock and the draw: timestamp in
\* 80..127, 0111 in 76..79, draw bits 62..65 in 64..67, 10 in 62..63, draw bits
\* 0..61 in place
Frame(unix_ts_ms, rand_int) ==
    {b + 80 : b \in unix_ts_ms \cap 0..47} \cup {76, 77, 78}
    \cup {b + 2 : b \in rand_int \cap 62..65} \cup {63} \cup (rand_int \cap 0..61)

ThreadDenoted(u) ==
    IF u.kind \in {"UUID", "UUIDv7Cat"} THEN {u.int}
    ELSE {x \in ThreadInts : u.text = UUIDToStr(x)}

\* what domain D gives for argument u: the member of D with the tag of u, if u
\* is a version 7, variant 10 value and D has the code; none otherwise
AnswerIn(D, u) ==
    LET hits == {i \in 1..Len(D.items) :
                     \E x \in ThreadDenoted(u) : IsV7(x) /\ D.items[i].value = TagOf(x)}
    IN  IF hits = {} THEN [some |-> FALSE, member |-> NoMember]
        ELSE [some |-> TRUE,
              member |-> [name |-> D.items[CHOOSE i \in hits : \A j \in hits : i <= j].name,
                          cls |-> D.cls, value |-> D.items[CHOOSE i \in hits : TRUE].value]]

AnsweredFrom(D) ==
    LET a == AnswerIn(D, frame.u) IN
    /\ D # NoEnum
    /\ frame.some = a.some
    /\ frame.member = a.member
    /\ frame.op = "is_valid" => frame.flag = a.some

\* C11: a category / get_category / is_valid call that set_categories and reset
\* calls of another thread interleave with never raises, and gives none or the
\* member with the identifier's tag in one domain that was the current (or
\* default) domain at some moment during the call.
C11_SingleSnapshot ==
    frame.pc = "done" =>
        /\ frame.raised = ""
        /\ \E D \in frame.during : AnsweredFrom(D)

\* the part of C11 that holds: a call that returns has answered from one domain
\* that was current during the call
C11_ReturnedFromOneDomain ==
    (frame.pc = "done" /\ frame.raised = "") => \E D \in frame.during : AnsweredFrom(D)

\* a reader that saw a domain at line 50 and None at line 55 raises
C11_Witness ==
    /\ frame.pc = "done"
    /\ frame.raised = "AttributeError"
    /\ frame.op = "get_category"
    /\ TestCategory \in frame.during
    /\ Category \in frame.during
    /\ \E x \in ThreadDenoted(frame.u) : IsV7(x) /\ TagOf(x) \in CodesOf(TestCategory)

====
